---- MODULE Spec2Model ----
(***************************************************************************)
(* Verification model of the MPT operation chip (src/src/operations.rs),   *)
(* its two test circuits, and the row-budget accounting of                 *)
(* MptCircuitConfig::assign (src/src/mpt.rs).                               *)
(*                                                                         *)
(* Field elements are modelled as integers: every value that occurs within *)
(* the bounds below is far smaller than the field modulus, so a gate       *)
(* polynomial is zero in the field exactly when it is zero as an integer.  *)
(***************************************************************************)
EXTENDS Integers, Sequences, FiniteSets, TLC

\* ------------------------------------------------------------------------
\* HashType and its field encoding (`HashType as u64`).  crate::serde is not
\* among the sources; the five variants are those the spec lists, encoded by
\* distinct non-zero numbers so that 0 stays the value of an unassigned cell.
Empty == 1
Middle == 2
LeafExt == 3
LeafExtFinal == 4
Leaf == 5
HashTypes == {Empty, Middle, LeafExt, LeafExtFinal, Leaf}

\* ------------------------------------------------------------------------
\* Bounds of the model.
MaxBatchRows == 3   \* rows of a whole batch (multi-op circuit)
MaxSingleLen == 3   \* rows of the operation of the single-op circuit
MaxHash == 2        \* root hashes are 1..MaxHash
MaxPath == 2        \* path values are 0..MaxPath
MaxTraceRows == 2   \* rows of a witness assigned cell by cell
MaxVecLen == 2      \* length of each vector handed to fill_aux
MaxNRows == 65      \* n_rows handed to MptCircuitConfig::assign is 0..MaxNRows
MaxKeys == 2        \* distinct keys of the proofs handed to it
BackendRows == 128  \* rows of the backend's region
MaxWord == 1        \* the two inputs of a hash trace are 0..MaxWord
MaxTraces == 2      \* hash traces handed to dev_load
MaxSize == 2        \* `size` handed to dev_load is 0..MaxSize
MaxStored == 2      \* gates, and lookups, the gadgets add to a builder
MaxExpr == 1        \* an expression evaluates to 0..MaxExpr on a row

MaxOf(S) == CHOOSE x \in S : \A y \in S : y <= x
MinOf(S) == CHOOSE x \in S : \A y \in S : x <= y

RECURSIVE Pow2(_)
Pow2(n) == IF n = 0 THEN 1 ELSE 2 * Pow2(n - 1)

\* Rows of the region.  The last row is never assigned: a rotation that
\* leaves the region wraps around to an unassigned (zero) cell.
LastRow == MaxOf({MaxBatchRows, MaxSingleLen, MaxTraceRows, MaxVecLen}) + 2
Rows == 0..LastRow
Prev(r) == IF r = 0 THEN LastRow ELSE r - 1
Succ(r) == IF r = LastRow THEN 0 ELSE r + 1

\* ------------------------------------------------------------------------
\* TYPEMAP
TYPEMAP_op ==
    { <<Empty, Leaf>>, <<Leaf, Leaf>>, <<Middle, Middle>>,
      <<LeafExt, Middle>>, <<LeafExtFinal, Middle>> }

\* mutant: a Leaf row may be followed by a Leaf row
TYPEMAP_trans_LeafLeaf ==
    { <<Middle, Middle>>, <<Middle, Empty>>, <<Middle, Leaf>>,
      <<Middle, LeafExt>>, <<Middle, LeafExtFinal>>,
      <<LeafExt, LeafExt>>, <<LeafExt, LeafExtFinal>>,
      <<LeafExtFinal, Leaf>>, <<LeafExtFinal, Empty>>, <<Leaf, Leaf>> }

TYPEMAP_trans ==
    { <<Middle, Middle>>, <<Middle, Empty>>, <<Middle, Leaf>>,
      <<Middle, LeafExt>>, <<Middle, LeafExtFinal>>,
      <<LeafExt, LeafExt>>, <<LeafExt, LeafExtFinal>>,
      <<LeafExtFinal, Leaf>>, <<LeafExtFinal, Empty>> }

\* The rows of a lookup table that `load` did not assign hold the zero tuple
\* ("the zero tuple (a permitted placeholder)").
TablePadding == { <<0, 0>> }

\* ------------------------------------------------------------------------
\* The region: one function Rows -> value per column; an unassigned cell is 0.
ZeroCol == [r \in Rows |-> 0]
EmptyRegion ==
    [ s_row |-> ZeroCol, sibling |-> ZeroCol, path |-> ZeroCol,
      old_hash_type |-> ZeroCol, new_hash_type |-> ZeroCol,
      old_hash |-> ZeroCol, new_hash |-> ZeroCol,
      is_first |-> ZeroCol, key_aux |-> ZeroCol,
      root_aux |-> ZeroCol, depth_aux |-> ZeroCol ]

VARIABLES
    ops,          \* the batch handed to the circuit (MPTTestOpCircuit.ops)
    pc,           \* position inside synthesize / verification
    opIdx,        \* index of the operation the loop is at (1-based)
    offset,       \* `offset` of MPTTestOpCircuit::synthesize
    region,       \* the assigned cells
    aux_ret,      \* what the last fill_aux call returned
    trans_table,  \* rows assigned to the "trans table"
    type_table,   \* rows assigned to the "op table"
    failures,     \* what MockProver::verify reports: <<constraint, row>>
    mpt,          \* MptCircuitConfig::assign: its arguments, locals and writes
    pt,           \* PoseidonTable::dev_load: its arguments, position and columns
    cb,           \* ConstraintBuilder and what it has registered with the backend
    util,         \* a call of a function of util.rs: its arguments and what it returned
    backend       \* rows of the main region the backend lets the circuit assign

opvars == <<ops, pc, opIdx, offset, region, aux_ret, trans_table, type_table, failures,
            backend>>
nonop == <<mpt, pt, cb, util>>
nonmpt == <<opvars, pt, cb, util>>
nonpt == <<opvars, mpt, cb, util>>
noncb == <<opvars, mpt, pt, util>>
nonutil == <<opvars, mpt, pt, cb>>
vars == <<ops, pc, opIdx, offset, region, aux_ret, trans_table, type_table, failures,
          backend, mpt, pt, cb, util>>

\* ------------------------------------------------------------------------
\* MPTOpChip::fill_heading
\* mutant: the flag of the first working row is not set
FillHeading_NoTop(reg, old_hash) ==
    [reg EXCEPT !.key_aux[0] = 0,
                !.depth_aux[0] = 0,
                !.root_aux[0] = old_hash,
                !.is_first[0] = 1]

FillHeading(reg, old_hash) ==
    [reg EXCEPT !.key_aux[0] = 0,
                !.depth_aux[0] = 0,
                !.root_aux[0] = old_hash,
                !.is_first[0] = 1,
                !.is_first[1] = 1]

\* ------------------------------------------------------------------------
\* MPTOpChip::fill_aux
\* mutant: the row after a Leaf row is not marked
IsFirstOfType_Never(hash_type) == 0
IsFirstOfType(hash_type) == IF hash_type = Leaf THEN 1 ELSE 0
\* mutant: the root is taken from every row's hash instead of being held
CurRoot_RowHash(is_first_col, hash, cur_root) == hash
CurRoot(is_first_col, hash, cur_root) == IF is_first_col THEN hash ELSE cur_root
\* mutant: the depth grows by one instead of doubling
CurDepth_Increment(is_first_col, cur_depth) ==
    IF is_first_col THEN 1 ELSE cur_depth + 1
CurDepth(is_first_col, cur_depth) == IF is_first_col THEN 1 ELSE 2 * cur_depth
\* mutant: the key of the rows above is not carried
AccKey_NoCarry(is_first_col, path, cur_depth, acc_key) == path * cur_depth
AccKey(is_first_col, path, cur_depth, acc_key) ==
    path * cur_depth + (IF is_first_col THEN 0 ELSE acc_key)
\* mutant: the flag is never raised again
NextIsFirstCol_Never(hash_type) == FALSE
NextIsFirstCol(hash_type) == hash_type = Leaf

\* the number of items the zip of the three vectors yields
ZipLen(new_hash_types, hash, path) ==
    MinOf({Len(new_hash_types), Len(hash), Len(path)})

\* the two assertions at the head of fill_aux
FillAuxAsserts(new_hash_types, hash) ==
    /\ Len(new_hash_types) = Len(hash)
    /\ Len(hash) > 0

\* mutant: the flag is written on the row itself
FillAuxRow_FlagOnRow(reg, st, index, hash_type, hash, path) ==
    LET cur_root == CurRoot(st.is_first_col, hash, st.cur_root)
        cur_depth == CurDepth(st.is_first_col, st.cur_depth)
        acc_key == AccKey(st.is_first_col, path, cur_depth, st.acc_key)
    IN  [ reg |-> [reg EXCEPT !.is_first[index] = IsFirstOfType(hash_type),
                              !.root_aux[index] = cur_root,
                              !.depth_aux[index] = cur_depth,
                              !.key_aux[index] = acc_key],
          st |-> [cur_root |-> cur_root, cur_depth |-> cur_depth,
                  acc_key |-> acc_key,
                  is_first_col |-> NextIsFirstCol(hash_type)] ]

\* one iteration of the loop: st is the loop's local state
FillAuxRow(reg, st, index, hash_type, hash, path) ==
    LET cur_root == CurRoot(st.is_first_col, hash, st.cur_root)
        cur_depth == CurDepth(st.is_first_col, st.cur_depth)
        acc_key == AccKey(st.is_first_col, path, cur_depth, st.acc_key)
    IN  [ reg |-> [reg EXCEPT !.is_first[index + 1] = IsFirstOfType(hash_type),
                              !.root_aux[index] = cur_root,
                              !.depth_aux[index] = cur_depth,
                              !.key_aux[index] = acc_key],
          st |-> [cur_root |-> cur_root, cur_depth |-> cur_depth,
                  acc_key |-> acc_key,
                  is_first_col |-> NextIsFirstCol(hash_type)] ]

RECURSIVE FillAuxLoop(_, _, _, _, _, _, _)
FillAuxLoop(reg, st, off, new_hash_types, hash, path, k) ==
    IF k > ZipLen(new_hash_types, hash, path) THEN reg
    ELSE LET step == FillAuxRow(reg, st, off + k - 1,
                                new_hash_types[k], hash[k], path[k])
         IN  FillAuxLoop(step.reg, step.st, off, new_hash_types, hash, path, k + 1)

\* mutant: the loop starts with the flag down
FillAuxInit_Unflagged ==
    [cur_root |-> 0, cur_depth |-> 0, acc_key |-> 0, is_first_col |-> FALSE]

FillAuxInit ==
    [cur_root |-> 0, cur_depth |-> 0, acc_key |-> 0, is_first_col |-> TRUE]

\* the region fill_aux leaves when it gets past its assertions
FillAuxRegion(reg, off, new_hash_types, hash, path) ==
    FillAuxLoop(reg, FillAuxInit, off, new_hash_types, hash, path, 1)

\* the cells the loop assigns: <<column, row>>
FillAuxCells(off, new_hash_types, hash, path) ==
    UNION { { <<"is_first", off + k>>, <<"root_aux", off + k - 1>>,
              <<"depth_aux", off + k - 1>>, <<"key_aux", off + k - 1>> } :
            k \in 1..ZipLen(new_hash_types, hash, path) }

\* the cells fill_heading assigns
FillHeadingCells ==
    { <<"key_aux", 0>>, <<"depth_aux", 0>>, <<"root_aux", 0>>,
      <<"is_first", 0>>, <<"is_first", 1>> }

\* Ok(hash.len())
FillAuxReturn(hash) == Len(hash)

\* ------------------------------------------------------------------------
\* MPTTestSingleOpCircuit::fill_layer
\* indexing a vector shorter than `path` panics
FillLayerInBounds(op) ==
    /\ Len(op.siblings) >= Len(op.path)
    /\ Len(op.old_hash) >= Len(op.path)
    /\ Len(op.new_hash) >= Len(op.path)
    /\ Len(op.old_hash_type) >= Len(op.path)
    /\ Len(op.new_hash_type) >= Len(op.path)

RECURSIVE FillLayerLoop(_, _, _, _)
FillLayerLoop(reg, op, off, ind) ==
    IF ind > Len(op.path) THEN reg
    ELSE LET row == off + ind - 1
         IN  FillLayerLoop(
                [reg EXCEPT !.s_row[row] = 1,
                            !.path[row] = op.path[ind],
                            !.sibling[row] = op.siblings[ind],
                            !.old_hash[row] = op.old_hash[ind],
                            !.new_hash[row] = op.new_hash[ind],
                            !.old_hash_type[row] = op.old_hash_type[ind],
                            !.new_hash_type[row] = op.new_hash_type[ind]],
                op, off, ind + 1)

FillLayer(reg, op, off) == FillLayerLoop(reg, op, off, 1)

\* ------------------------------------------------------------------------
\* MPTOpChip::load: the rows assigned to the two tables
LoadTransTable == { <<t[1], t[2]>> : t \in TYPEMAP_trans }
LoadTypeTable == { <<t[1], t[2]>> : t \in TYPEMAP_op }

\* ------------------------------------------------------------------------
\* MPTOpChip::configure: the three lookups.  Each gives the input tuple of a row.
\* mutant: the transition lookups are not masked
Border_Unmasked(reg, r) == 1
Border(reg, r) == 1 - reg.is_first[r]

LookupTransOld(reg, r) ==
    << Border(reg, r) * reg.old_hash_type[Prev(r)],
       Border(reg, r) * reg.old_hash_type[r] >>

\* mutant: the new-type lookup reads the old-type column
LookupTransNew_OldColumn(reg, r) ==
    << Border(reg, r) * reg.old_hash_type[Prev(r)],
       Border(reg, r) * reg.old_hash_type[r] >>

LookupTransNew(reg, r) ==
    << Border(reg, r) * reg.new_hash_type[Prev(r)],
       Border(reg, r) * reg.new_hash_type[r] >>

\* mutant: the pairing lookup is masked like the transition lookups
LookupOldNew_Masked(reg, r) ==
    << Border(reg, r) * reg.old_hash_type[r],
       Border(reg, r) * reg.new_hash_type[r] >>

LookupOldNew(reg, r) ==
    << reg.old_hash_type[r], reg.new_hash_type[r] >>

\* MPTOpChip::configure: the six gates.  Each gives the values of the gate's
\* polynomials on a row.
\* mutant: the flag is only constrained to be boolean
GateIsFirst_BooleanOnly(reg, r) ==
    << reg.s_row[r] * (1 - reg.is_first[Succ(r)]) * reg.is_first[Succ(r)], 0 >>

GateIsFirst(reg, r) ==
    << reg.s_row[r] * (1 - reg.is_first[Succ(r)]) * reg.is_first[Succ(r)],
       reg.s_row[r] * reg.is_first[Succ(r)] * (reg.new_hash_type[r] - Leaf) >>

\* mutant: the path has to be boolean on Leaf rows too
GatePathBit_AllRows(reg, r) ==
    << reg.s_row[r] * ((1 - reg.path[r]) * reg.path[r]) >>

GatePathBit(reg, r) ==
    << reg.s_row[r] * ((1 - reg.path[r]) * reg.path[r])
          * (reg.new_hash_type[r] - Leaf) >>

GateCalcKey(reg, r) ==
    LET key_cur == reg.path[r] * reg.depth_aux[r] - reg.key_aux[r]
    IN  << reg.s_row[r] * reg.is_first[r] * key_cur,
           reg.s_row[r] * (1 - reg.is_first[r])
              * (reg.key_aux[Prev(r)] + key_cur) >>

\* mutant: the root is not held on the rows that continue a run
GateRootAux_NoHold(reg, r) ==
    << reg.s_row[r] * reg.is_first[r] * (reg.root_aux[r] - reg.new_hash[r]), 0 >>

GateRootAux(reg, r) ==
    << reg.s_row[r] * reg.is_first[r] * (reg.root_aux[r] - reg.new_hash[r]),
       reg.s_row[r] * (1 - reg.is_first[r])
          * (reg.root_aux[r] - reg.root_aux[Prev(r)]) >>

\* mutant: the gate is conditioned on (1 - is_first)
GateOpContinue_NotFirst(reg, r) ==
    << reg.s_row[r] * (1 - reg.is_first[r])
          * (reg.old_hash[r] - reg.root_aux[Prev(r)]) >>

GateOpContinue(reg, r) ==
    << reg.s_row[r] * reg.is_first[r]
          * (reg.old_hash[r] - reg.root_aux[Prev(r)]) >>

\* mutant: the depth is not constrained on the rows that continue a run
GateDepthAux_FirstOnly(reg, r) ==
    << reg.s_row[r] * reg.is_first[r] * (1 - reg.depth_aux[r]), 0 >>

GateDepthAux(reg, r) ==
    << reg.s_row[r] * reg.is_first[r] * (1 - reg.depth_aux[r]),
       reg.s_row[r] * (1 - reg.is_first[r])
          * (reg.depth_aux[Prev(r)] * 2 - reg.depth_aux[r]) >>

\* ------------------------------------------------------------------------
\* MockProver::verify as the tests use it: every gate polynomial is zero on
\* every row, every lookup input is a row of its table.
Vanishes(polys) == \A i \in 1..Len(polys) : polys[i] = 0

GateFailures(reg) ==
    { <<"is first", r>> : r \in { x \in Rows : ~Vanishes(GateIsFirst(reg, x)) } }
    \cup { <<"path bit", r>> : r \in { x \in Rows : ~Vanishes(GatePathBit(reg, x)) } }
    \cup { <<"calc key", r>> : r \in { x \in Rows : ~Vanishes(GateCalcKey(reg, x)) } }
    \cup { <<"root aux", r>> : r \in { x \in Rows : ~Vanishes(GateRootAux(reg, x)) } }
    \cup { <<"op continue", r>> : r \in { x \in Rows : ~Vanishes(GateOpContinue(reg, x)) } }
    \cup { <<"depth aux", r>> : r \in { x \in Rows : ~Vanishes(GateDepthAux(reg, x)) } }

LookupFailures(reg, trans, types) ==
    { <<"transition - old", r>> :
        r \in { x \in Rows : LookupTransOld(reg, x) \notin trans \cup TablePadding } }
    \cup { <<"transition - new", r>> :
        r \in { x \in Rows : LookupTransNew(reg, x) \notin trans \cup TablePadding } }
    \cup { <<"old - new", r>> :
        r \in { x \in Rows : LookupOldNew(reg, x) \notin types \cup TablePadding } }

Verify(reg, trans, types) == GateFailures(reg) \cup LookupFailures(reg, trans, types)

GateNames == {"is first", "path bit", "calc key", "root aux", "op continue", "depth aux"}

\* ------------------------------------------------------------------------
\* Operations handed to the circuits.  An operation is built from its rows'
\* (old-type, new-type) pairs, its path values and its two roots: the first
\* row carries the old and the new root, the rows below carry node hashes.
MkOp(types, path, old_root, new_root) ==
    [ old_hash_type |-> [i \in 1..Len(types) |-> types[i][1]],
      new_hash_type |-> [i \in 1..Len(types) |-> types[i][2]],
      path |-> path,
      old_hash |-> [i \in 1..Len(types) |-> IF i = 1 THEN old_root ELSE 0],
      new_hash |-> [i \in 1..Len(types) |-> IF i = 1 THEN new_root ELSE 0],
      siblings |-> [i \in 1..Len(types) |-> 0] ]

Hashes == 1..MaxHash
OldRoot(op) == op.old_hash[1]
NewRoot(op) == op.new_hash[1]

\* type sequences every lookup accepts: each row's pair is in the op table
\* and consecutive rows are in the transition table, for both columns
TransOk(s) ==
    \A i \in 2..Len(s) : /\ <<s[i-1][1], s[i][1]>> \in TYPEMAP_trans
                         /\ <<s[i-1][2], s[i][2]>> \in TYPEMAP_trans

SingleTypeSeqs(n) == { s \in [1..n -> TYPEMAP_op] : TransOk(s) }

\* the operations of a batch have rows Empty->Leaf or Middle->Middle
BatchTypeRows == { <<Empty, Leaf>>, <<Middle, Middle>> }

\* a root other than h
OtherRoot(h) == (h % MaxHash) + 1

\* offset at which operation i of batch b is assigned
RECURSIVE FirstRow(_, _)
FirstRow(b, i) == IF i = 1 THEN 1 ELSE FirstRow(b, i - 1) + Len(b[i - 1].path)

RECURSIVE SumTo(_, _)
SumTo(lens, i) == IF i = 0 THEN 0 ELSE SumTo(lens, i - 1) + lens[i]

\* The batch of Len(lens) operations, operation i having lens[i] rows: `types`
\* gives the type pair of every row of the batch, path values are 1,
\* operation i has new root news[i] and starts from the new root of
\* operation i-1, or from another root where wrong[i]; the first operation
\* starts from `start`.
BatchOf(lens, types, start, news, wrong) ==
    [ i \in 1..Len(lens) |->
        LET base == SumTo(lens, i - 1)
            prev == IF i = 1 THEN start ELSE news[i - 1]
        IN  MkOp([j \in 1..lens[i] |-> types[base + j]],
                 [j \in 1..lens[i] |-> 1],
                 IF i > 1 /\ wrong[i] THEN OtherRoot(prev) ELSE prev,
                 news[i]) ]

\* ------------------------------------------------------------------------
\* The two test circuits.
TypeOK ==
    /\ pc \in {"start", "heading", "aux", "layer", "load", "verify", "done", "abort",
              "witness", "hashes", "types", "idle", "error",
              "prover", "depths", "paths", "runs"}
    /\ opIdx \in 1..(Len(ops) + 1)
    /\ offset \in Rows

\* no function of util.rs has been called
UtilIdle == [ pc |-> "idle", fn |-> "", x |-> 0, i |-> 0, index |-> 0, ret |-> << >> ]

InitRest ==
    /\ util = UtilIdle
    /\ opIdx = 1
    /\ backend = LastRow + 1
    /\ offset = 0
    /\ region = EmptyRegion
    /\ aux_ret = 0
    /\ trans_table = {}
    /\ type_table = {}
    /\ failures = {}

\* the oracle table before dev_load is called: rows 0..MaxSize + 1, no cell
\* assigned
PRows == 0..(MaxSize + 1)
PZeroCol == [r \in PRows |-> 0]
PtIdle ==
    [ pc |-> "idle", hash_traces |-> << >>, size |-> 0, offset |-> 0,
      q_enable |-> PZeroCol, left |-> PZeroCol, right |-> PZeroCol,
      hash |-> PZeroCol, control |-> PZeroCol, head_mark |-> PZeroCol,
      assigned |-> {}, rewritten |-> {} ]

\* ConstraintBuilder::new(): nothing stored, nothing registered
CbIdle ==
    [ pc |-> "idle", constraints |-> << >>, lookups |-> << >>,
      registered |-> << >> ]

\* MptCircuitConfig::assign before it is called
MptIdle ==
    [ pc |-> "idle", n_rows |-> 0, n_keys |-> 0, need |-> 0,
      selector |-> {}, total_rep_size |-> 0, n_assigned_rows |-> 0,
      update_rows |-> {}, padding_rows |-> {} ]

InitCommon == pc = "start" /\ InitRest /\ mpt = MptIdle /\ pt = PtIdle /\ cb = CbIdle

\* MPTTestOpCircuit { ops }: a batch of at most MaxBatchRows rows
Init ==
    /\ \E k \in 1..MaxBatchRows :
         \E lens \in [1..k -> 1..MaxBatchRows] :
            /\ SumTo(lens, k) <= MaxBatchRows
            /\ \E types \in [1..SumTo(lens, k) -> BatchTypeRows],
                  start \in Hashes, news \in [1..k -> Hashes],
                  wrong \in [1..k -> BOOLEAN] :
                    /\ ~wrong[1]
                    /\ ops = BatchOf(lens, types, start, news, wrong)
    /\ InitCommon

\* MPTTestOpCircuit { ops } on chained batches with path values 0 and 1
PathBits == {0, 1}

BatchWithPaths(b, paths) ==
    [ i \in 1..Len(b) |->
        [b[i] EXCEPT !.path = [j \in 1..Len(b[i].path) |->
                                  paths[FirstRow(b, i) + j - 1]]] ]

InitRoundTrip ==
    /\ \E k \in 1..MaxBatchRows :
         \E lens \in [1..k -> 1..MaxBatchRows] :
            /\ SumTo(lens, k) <= MaxBatchRows
            /\ \E types \in [1..SumTo(lens, k) -> BatchTypeRows],
                  paths \in [1..SumTo(lens, k) -> PathBits],
                  news \in [1..k -> Hashes] :
                    ops = BatchWithPaths(
                             BatchOf(lens, types, 1, news, [i \in 1..k |-> FALSE]),
                             paths)
    /\ InitCommon

\* MPTTestSingleOpCircuit, seen as a batch of one operation of at most
\* MaxSingleLen rows, with any path values and roots
InitSingle ==
    /\ \E n \in 1..MaxSingleLen :
         \E t \in SingleTypeSeqs(n), p \in [1..n -> 0..MaxPath],
            o \in Hashes, h \in Hashes :
                ops = << MkOp(t, p, o, h) >>
    /\ InitCommon

\* The backend refuses a cell of the main region at a row it does not have:
\* region.assign_advice(..) is then an Err, which `?` hands to the caller.
\* The cells of the refused call's closure are dropped with the prover.
AssignFails(row) == row >= backend

\* fill_aux: its highest cell is is_first at the row after its last row
FillAuxFails(off, new_hash_types, hash, path) ==
    /\ ZipLen(new_hash_types, hash, path) > 0
    /\ AssignFails(off + ZipLen(new_hash_types, hash, path))

\* fill_layer: a refused row is met before the vectors run out
FillLayerFails(op, off) ==
    \E ind \in 1..Len(op.path) :
        /\ AssignFails(off + ind - 1)
        /\ ind <= MinOf({Len(op.siblings), Len(op.old_hash), Len(op.new_hash),
                         Len(op.old_hash_type), Len(op.new_hash_type)}) + 1

\* the single-op circuit on a backend of any number of rows: an operation
\* of Middle rows closed by a Leaf row
ChainOp(n, old_root, new_root) ==
    MkOp([i \in 1..n |-> IF i = n THEN <<Empty, Leaf>> ELSE <<Middle, Middle>>],
         [i \in 1..n |-> 1], old_root, new_root)

InitBackend ==
    /\ \E n \in 1..MaxSingleLen, o \in Hashes, h \in Hashes :
          ops = << ChainOp(n, o, h) >>
    /\ pc = "start"
    /\ opIdx = 1
    /\ offset = 0
    /\ region = EmptyRegion
    /\ aux_ret = 0
    /\ trans_table = {}
    /\ type_table = {}
    /\ failures = {}
    /\ backend \in 1..(LastRow + 1)
    /\ util = UtilIdle
    /\ mpt = MptIdle
    /\ pt = PtIdle
    /\ cb = CbIdle

\* region.assign_advice(|| "path padding", config.path, 0, 0)
PathPadding ==
    /\ pc = "start"
    /\ IF AssignFails(0)
       THEN pc' = "error" /\ UNCHANGED region
       ELSE /\ region' = [region EXCEPT !.path[0] = 0]
            /\ pc' = "heading"
    /\ UNCHANGED <<ops, opIdx, offset, aux_ret, trans_table, type_table, failures, backend, nonop>>

\* op_chip.fill_heading(&mut region, self.ops[0].old_hash[0]); offset = 1
Heading ==
    /\ pc = "heading"
    /\ IF Len(ops) = 0 \/ Len(ops[1].old_hash) = 0
       THEN pc' = "abort" /\ UNCHANGED <<region, offset>>
       ELSE IF AssignFails(1)
       THEN pc' = "error" /\ UNCHANGED <<region, offset>>
       ELSE /\ region' = FillHeading(region, ops[1].old_hash[1])
            /\ offset' = 1
            /\ pc' = "aux"
    /\ UNCHANGED <<ops, opIdx, aux_ret, trans_table, type_table, failures, backend, nonop>>

\* op_chip.fill_aux(&mut region, offset, &op.new_hash_type, &op.new_hash, &op.path)
FillAux ==
    /\ pc = "aux"
    /\ LET op == ops[opIdx]
       IN  IF ~FillAuxAsserts(op.new_hash_type, op.new_hash)
           THEN pc' = "abort" /\ UNCHANGED <<region, aux_ret>>
           ELSE IF FillAuxFails(offset, op.new_hash_type, op.new_hash, op.path)
           THEN pc' = "error" /\ UNCHANGED <<region, aux_ret>>
           ELSE /\ region' = FillAuxRegion(region, offset, op.new_hash_type,
                                           op.new_hash, op.path)
                /\ aux_ret' = FillAuxReturn(op.new_hash)
                /\ pc' = "layer"
    /\ UNCHANGED <<ops, opIdx, offset, trans_table, type_table, failures, backend, nonop>>

\* offset += op.fill_layer(&config, &mut region, offset); next op or leave the loop
Layer ==
    /\ pc = "layer"
    /\ LET op == ops[opIdx]
       IN  IF FillLayerFails(op, offset)
           THEN pc' = "error" /\ UNCHANGED <<region, offset, opIdx>>
           ELSE IF ~FillLayerInBounds(op)
           THEN pc' = "abort" /\ UNCHANGED <<region, offset, opIdx>>
           ELSE /\ region' = FillLayer(region, op, offset)
                /\ offset' = offset + Len(op.path)
                /\ opIdx' = opIdx + 1
                /\ pc' = IF opIdx < Len(ops) THEN "aux" ELSE "load"
    /\ UNCHANGED <<ops, aux_ret, trans_table, type_table, failures, backend, nonop>>

\* op_chip.load(&mut layouter)
Load ==
    /\ pc = "load"
    /\ trans_table' = LoadTransTable
    /\ type_table' = LoadTypeTable
    /\ pc' = "verify"
    /\ UNCHANGED <<ops, opIdx, offset, region, aux_ret, failures, backend, nonop>>

\* prover.verify()
VerifyStep ==
    /\ pc = "verify"
    /\ failures' = Verify(region, trans_table, type_table)
    /\ pc' = "done"
    /\ UNCHANGED <<ops, opIdx, offset, region, aux_ret, trans_table, type_table, backend, nonop>>

Next == PathPadding \/ Heading \/ FillAux \/ Layer \/ Load \/ VerifyStep

Spec == Init /\ [][Next]_vars
SpecSingle == InitSingle /\ [][Next]_vars
SpecBackend == InitBackend /\ [][Next]_vars
SpecRoundTrip == InitRoundTrip /\ [][Next]_vars

\* ------------------------------------------------------------------------
\* The single-op circuit handed vectors of independent lengths: new_hash_type,
\* new_hash and path are any vectors of at most MaxVecLen items, the three
\* other vectors are as long as new_hash_type.
VecTypes == {Middle, Leaf}
VecPaths == {0, 1}
SeqsUpTo(S, n) == UNION { [1..k -> S] : k \in 0..n }

VecOp(types, hash, path, old_root) ==
    [ old_hash_type |-> [i \in 1..Len(types) |->
                            IF types[i] = Leaf THEN Empty ELSE Middle],
      new_hash_type |-> types,
      path |-> path,
      old_hash |-> [i \in 1..Len(types) |-> IF i = 1 THEN old_root ELSE 0],
      new_hash |-> hash,
      siblings |-> [i \in 1..Len(types) |-> 0] ]

InitVectors ==
    /\ \E types \in SeqsUpTo(VecTypes, MaxVecLen),
          hash \in SeqsUpTo(Hashes, MaxVecLen),
          path \in SeqsUpTo(VecPaths, MaxVecLen),
          old_root \in Hashes :
            ops = << VecOp(types, hash, path, old_root) >>
    /\ InitCommon

SpecVectors == InitVectors /\ [][Next]_vars

\* ------------------------------------------------------------------------
\* A witness assigned cell by cell.  The gates and lookups have to reject
\* whatever a prover assigns, so the rows are any values: after the heading
\* either the hash columns or the type columns of rows 1.. are assigned
\* (region.assign_advice of fill_aux and fill_layer with free values), then
\* the tables are loaded and the witness is verified.
TraceFlags == {0, 1, 2}
TraceHashes == {1, 2}

InitTrace ==
    /\ ops = << >>
    /\ pc = "witness"
    /\ InitRest
    /\ mpt = MptIdle
    /\ pt = PtIdle
    /\ cb = CbIdle

\* path padding and fill_heading with any starting root
TraceHeading ==
    /\ pc = "witness"
    /\ \E h \in TraceHashes :
          region' = FillHeading([region EXCEPT !.path[0] = 0], h)
    /\ offset' = 1
    /\ pc' \in {"hashes", "types"}
    /\ UNCHANGED <<ops, opIdx, aux_ret, trans_table, type_table, failures, backend, nonop>>

\* one enabled row: is_first, old_hash, new_hash, root_aux
TraceHashRow ==
    /\ pc = "hashes"
    /\ offset <= MaxTraceRows
    /\ \E f \in TraceFlags, o \in TraceHashes, n \in TraceHashes, a \in TraceHashes :
          region' = [region EXCEPT !.s_row[offset] = 1,
                                   !.is_first[offset] = f,
                                   !.old_hash[offset] = o,
                                   !.new_hash[offset] = n,
                                   !.root_aux[offset] = a]
    /\ offset' = offset + 1
    /\ UNCHANGED <<ops, pc, opIdx, aux_ret, trans_table, type_table, failures, backend, nonop>>

\* one enabled row: is_first, old_hash_type, new_hash_type
TraceTypeRow ==
    /\ pc = "types"
    /\ offset <= MaxTraceRows
    /\ \E f \in TraceFlags \ {2}, o \in HashTypes, n \in HashTypes :
          region' = [region EXCEPT !.s_row[offset] = 1,
                                   !.is_first[offset] = f,
                                   !.old_hash_type[offset] = o,
                                   !.new_hash_type[offset] = n]
    /\ offset' = offset + 1
    /\ UNCHANGED <<ops, pc, opIdx, aux_ret, trans_table, type_table, failures, backend, nonop>>

\* the region is assigned: on to op_chip.load
TraceEnd ==
    /\ pc \in {"hashes", "types"}
    /\ offset > 1
    /\ pc' = "load"
    /\ UNCHANGED <<ops, opIdx, offset, region, aux_ret, trans_table, type_table,
                   failures, backend, nonop>>

NextTrace ==
    TraceHeading \/ TraceHashRow \/ TraceTypeRow \/ TraceEnd \/ Load \/ VerifyStep

SpecTrace == InitTrace /\ [][NextTrace]_vars

\* ------------------------------------------------------------------------
\* A prover's witness on the aux, path and type columns.  After the heading
\* the prover assigns rows 1.. in one of three ways: is_first and depth_aux
\* with any values; path and new_hash_type with any values; or whole rows, on
\* which the selector may or may not be enabled, the type pair and the flag
\* of the next row are chosen and the hash, root, depth and key cells are
\* what fill_aux computes for a path of zeros under one root.
TraceDepths == 0..(2 * MaxTraceRows)
TracePaths == 0..MaxPath
RunTypePairs == TYPEMAP_op \cup { <<Middle, Leaf>>, <<0, 0>> }

InitProver ==
    /\ ops = << >>
    /\ pc = "prover"
    /\ InitRest
    /\ mpt = MptIdle
    /\ pt = PtIdle
    /\ cb = CbIdle

\* path padding and fill_heading with any starting root
ProverHeading ==
    /\ pc = "prover"
    /\ \E h \in TraceHashes :
          region' = FillHeading([region EXCEPT !.path[0] = 0], h)
    /\ offset' = 1
    /\ pc' \in {"depths", "paths", "runs"}
    /\ UNCHANGED <<ops, opIdx, aux_ret, trans_table, type_table, failures, backend, nonop>>

\* one enabled row: is_first, depth_aux
ProverDepthRow ==
    /\ pc = "depths"
    /\ offset <= MaxTraceRows
    /\ \E f \in TraceFlags, d \in TraceDepths :
          region' = [region EXCEPT !.s_row[offset] = 1,
                                   !.is_first[offset] = f,
                                   !.depth_aux[offset] = d]
    /\ offset' = offset + 1
    /\ UNCHANGED <<ops, pc, opIdx, aux_ret, trans_table, type_table, failures, backend, nonop>>

\* one enabled row: path, new_hash_type
ProverPathRow ==
    /\ pc = "paths"
    /\ offset <= MaxTraceRows
    /\ \E p \in TracePaths, n \in HashTypes :
          region' = [region EXCEPT !.s_row[offset] = 1,
                                   !.path[offset] = p,
                                   !.new_hash_type[offset] = n]
    /\ offset' = offset + 1
    /\ UNCHANGED <<ops, pc, opIdx, aux_ret, trans_table, type_table, failures, backend, nonop>>

\* one whole row, enabled or not: the cells of fill_aux and fill_layer
ProverRunRow ==
    /\ pc = "runs"
    /\ offset <= MaxTraceRows
    /\ \E s \in {0, 1}, f \in {0, 1}, t \in RunTypePairs :
          region' = [region EXCEPT !.s_row[offset] = s,
                                   !.is_first[offset + 1] = f,
                                   !.old_hash_type[offset] = t[1],
                                   !.new_hash_type[offset] = t[2],
                                   !.old_hash[offset] = region.root_aux[0],
                                   !.new_hash[offset] = region.root_aux[0],
                                   !.root_aux[offset] = region.root_aux[0],
                                   !.depth_aux[offset] =
                                       CurDepth(region.is_first[offset] = 1,
                                                region.depth_aux[offset - 1])]
    /\ offset' = offset + 1
    /\ UNCHANGED <<ops, pc, opIdx, aux_ret, trans_table, type_table, failures, backend, nonop>>

\* the region is assigned: on to op_chip.load
ProverEnd ==
    /\ pc \in {"depths", "paths", "runs"}
    /\ offset > 1
    /\ pc' = "load"
    /\ UNCHANGED <<ops, opIdx, offset, region, aux_ret, trans_table, type_table,
                   failures, backend, nonop>>

NextProver ==
    \/ ProverHeading \/ ProverDepthRow \/ ProverPathRow \/ ProverRunRow
    \/ ProverEnd \/ Load \/ VerifyStep

SpecProver == InitProver /\ [][NextProver]_vars

\* ------------------------------------------------------------------------
\* MptCircuitConfig::assign(layouter, proofs, n_rows).  Of the proofs the
\* model keeps the number of their distinct keys and the number of rows
\* their update assignment needs.
RepRows == 32
\* usize::MAX, the value `n_rows / 32 - 1` wraps to where overflow is not
\* checked; the model only compares it
UsizeMax == 2147483647

\* mutant: the budget is checked against one row too many
BudgetOk_OneMore(n_assigned_rows, n_rows) == n_assigned_rows <= n_rows + 1
\* assert!(n_assigned_rows <= n_rows, ...)
BudgetOk(n_assigned_rows, n_rows) == n_assigned_rows <= n_rows

\* mutant: one key more than the slots is let in
CapacityOk_OneMore(total_rep_size, n_keys) == total_rep_size + 1 >= n_keys
\* assert!(total_rep_size >= keys.len(), ...)
CapacityOk(total_rep_size, n_keys) == total_rep_size >= n_keys

InitAssign ==
    /\ ops = << >>
    /\ pc = "idle"
    /\ InitRest
    /\ pt = PtIdle
    /\ cb = CbIdle
    /\ \E n \in 0..MaxNRows, k \in 0..MaxKeys, need \in 0..(MaxNRows + 1) :
          mpt = [MptIdle EXCEPT !.pc = "enable", !.n_rows = n, !.n_keys = k,
                                !.need = need]

\* for offset in 1..n_rows { self.selector.enable(&mut region, offset) }
SelectorRows(n_rows) == 1..(n_rows - 1)

AssignEnable ==
    /\ mpt.pc = "enable"
    /\ mpt' = [mpt EXCEPT !.selector = SelectorRows(mpt.n_rows), !.pc = "capacity"]
    /\ UNCHANGED nonmpt

\* let total_rep_size = n_rows / 32 - 1, and the capacity assertion.  The
\* subtraction overflows when n_rows < 32: the build either panics there or
\* wraps.
AssignCapacity ==
    /\ mpt.pc = "capacity"
    /\ \/ /\ mpt.n_rows \div RepRows = 0
          /\ \/ mpt' = [mpt EXCEPT !.pc = "abort"]
             \/ mpt' = [mpt EXCEPT !.total_rep_size = UsizeMax, !.pc = "gadgets"]
       \/ /\ mpt.n_rows \div RepRows > 0
          /\ LET total_rep_size == mpt.n_rows \div RepRows - 1
             IN  IF CapacityOk(total_rep_size, mpt.n_keys)
                 THEN mpt' = [mpt EXCEPT !.total_rep_size = total_rep_size,
                                         !.pc = "gadgets"]
                 ELSE mpt' = [mpt EXCEPT !.total_rep_size = total_rep_size,
                                         !.pc = "abort"]
    /\ UNCHANGED nonmpt

\* canonical_representation.assign(..take(total_rep_size)) and the three
\* other gadgets: each input costs 32 rows and one extra input is added; an
\* assignment outside the backend's rows aborts
AssignGadgets ==
    /\ mpt.pc = "gadgets"
    /\ IF mpt.total_rep_size >= BackendRows \div RepRows
       THEN mpt' = [mpt EXCEPT !.pc = "abort"]
       ELSE mpt' = [mpt EXCEPT !.pc = "update"]
    /\ UNCHANGED nonmpt

\* let n_assigned_rows = self.mpt_update.assign(&mut region, proofs, randomness)
\* the update assignment writes rows 1..n_assigned_rows
AssignUpdate ==
    /\ mpt.pc = "update"
    /\ mpt' = [mpt EXCEPT !.update_rows = 1..mpt.need,
                          !.n_assigned_rows = mpt.need,
                          !.pc = "budget"]
    /\ UNCHANGED nonmpt

\* the row-budget assertion
AssignBudget ==
    /\ mpt.pc = "budget"
    /\ IF BudgetOk(mpt.n_assigned_rows, mpt.n_rows)
       THEN mpt' = [mpt EXCEPT !.pc = "padding"]
       ELSE mpt' = [mpt EXCEPT !.pc = "abort"]
    /\ UNCHANGED nonmpt

\* for offset in 1 + n_assigned_rows..n_rows { assign_padding_row }; Ok(())
AssignPadding ==
    /\ mpt.pc = "padding"
    /\ mpt' = [mpt EXCEPT !.padding_rows = (1 + mpt.n_assigned_rows)..(mpt.n_rows - 1),
                          !.pc = "ok"]
    /\ UNCHANGED nonmpt

NextAssign ==
    \/ AssignEnable
    \/ AssignCapacity
    \/ AssignGadgets
    \/ AssignUpdate
    \/ AssignBudget
    \/ AssignPadding

SpecAssign == InitAssign /\ [][NextAssign]_vars

\* ------------------------------------------------------------------------
\* PoseidonTable.  util::hash is the Poseidon hash of two field elements; the
\* model takes an injective function that is never zero in its place.
H(l, r) == 1 + l + (MaxWord + 1) * r
HASH_ZERO_ZERO == H(0, 0)
\* a hash that is not the hash of (l, r)
WrongHash(l, r) == H(l, r) + 1
Words == 0..MaxWord
\* the hash traces a caller may hand over: right or wrong
TraceInputs ==
    { <<l, r, H(l, r)>> : l \in Words, r \in Words }
    \cup { <<l, r, WrongHash(l, r)>> : l \in Words, r \in Words }

\* column.assign(region, offset, value): the cell holds the value written
\* last; the model also records the cells assigned once and more than once
PtAssign(t, col, row, value) ==
    [t EXCEPT ![col][row] = value,
              !.assigned = @ \cup { <<col, row>> },
              !.rewritten = IF <<col, row>> \in t.assigned
                            THEN @ \cup { <<col, row>> } ELSE @]

\* mutant: dev_load takes the supplied hash on trust
HashChecks_Trusting(hash_trace) == TRUE
\* assert!(poseidon_hash(hash_trace.0, hash_trace.1) == hash_trace.2, ..)
HashChecks(hash_trace) == H(hash_trace[1], hash_trace[2]) = hash_trace[3]

\* assert!(size >= hash_traces.len(), ..)
SizeOk(size, hash_traces) == size >= Len(hash_traces)

\* hash_traces.iter().chain(&[(0, 0, HASH_ZERO_ZERO)]): item at `offset`
ChainedTrace(hash_traces, off) ==
    IF off < Len(hash_traces) THEN hash_traces[off + 1]
    ELSE <<0, 0, HASH_ZERO_ZERO>>

\* the body of the first loop: the five advice cells and q_enable of a row
DevLoadRowCells(t, off, hash_trace) ==
    PtAssign(
      PtAssign(
        PtAssign(
          PtAssign(
            PtAssign(
              PtAssign(t, "left", off, hash_trace[1]),
              "right", off, hash_trace[2]),
            "hash", off, hash_trace[3]),
          "control", off, 0),
        "head_mark", off, 1),
      "q_enable", off, 1)

\* for offset in hash_traces.len()..size { q_enable.assign(region, offset, 1) }
RECURSIVE DevLoadEnableFrom(_, _)
DevLoadEnableFrom(t, off) ==
    IF off >= t.size THEN t
    ELSE DevLoadEnableFrom(PtAssign(t, "q_enable", off, 1), off + 1)

\* the all-zero row at offset `size`
DevLoadZeroCells(t) ==
    PtAssign(
      PtAssign(
        PtAssign(
          PtAssign(
            PtAssign(t, "hash", t.size, 0),
            "left", t.size, 0),
          "right", t.size, 0),
        "control", t.size, 0),
      "head_mark", t.size, 0)

\* dev_load as one function of its arguments, for traces that pass its
\* assertions: the table it leaves
RECURSIVE DevLoadRowsFrom(_, _)
DevLoadRowsFrom(t, off) ==
    IF off > Len(t.hash_traces) THEN t
    ELSE DevLoadRowsFrom(
            DevLoadRowCells(t, off, ChainedTrace(t.hash_traces, off)), off + 1)

DevLoad(hash_traces, size) ==
    LET t0 == [PtIdle EXCEPT !.hash_traces = hash_traces, !.size = size]
    IN  DevLoadZeroCells(
           DevLoadEnableFrom(DevLoadRowsFrom(t0, 0), Len(hash_traces)))

InitPoseidon ==
    /\ ops = << >>
    /\ pc = "idle"
    /\ InitRest
    /\ mpt = MptIdle
    /\ cb = CbIdle
    /\ \E k \in 0..MaxTraces :
         \E hash_traces \in [1..k -> TraceInputs], size \in 0..MaxSize :
            pt = [PtIdle EXCEPT !.pc = "assert", !.hash_traces = hash_traces,
                                !.size = size]

\* the size assertion at the head of dev_load
DevLoadAssert ==
    /\ pt.pc = "assert"
    /\ pt' = [pt EXCEPT !.pc = IF SizeOk(pt.size, pt.hash_traces)
                               THEN "rows" ELSE "abort"]
    /\ UNCHANGED nonpt

\* one iteration of the first loop: the supplied traces, then the default
DevLoadRow ==
    /\ pt.pc = "rows"
    /\ LET hash_trace == ChainedTrace(pt.hash_traces, pt.offset)
       IN  IF HashChecks(hash_trace)
           THEN pt' = [DevLoadRowCells(pt, pt.offset, hash_trace) EXCEPT
                          !.offset = pt.offset + 1,
                          !.pc = IF pt.offset < Len(pt.hash_traces)
                                 THEN "rows" ELSE "enable"]
           ELSE pt' = [pt EXCEPT !.pc = "abort"]
    /\ UNCHANGED nonpt

\* the second loop: q_enable on the rest of the `size` rows
DevLoadEnable ==
    /\ pt.pc = "enable"
    /\ pt' = [DevLoadEnableFrom(pt, Len(pt.hash_traces)) EXCEPT !.pc = "zero"]
    /\ UNCHANGED nonpt

\* the third loop: "add an total zero row for disabled lookup"
DevLoadZeroRow ==
    /\ pt.pc = "zero"
    /\ pt' = [DevLoadZeroCells(pt) EXCEPT !.pc = "loaded"]
    /\ UNCHANGED nonpt

NextPoseidon == DevLoadAssert \/ DevLoadRow \/ DevLoadEnable \/ DevLoadZeroRow

SpecPoseidon == InitPoseidon /\ [][NextPoseidon]_vars

\* PoseidonTable::lookup: the input (1, hash, left, right, 0, 1) is a row
\* (q_enable, hash, left, right, control, head_mark) of the table
PtRow(t, r) ==
    << t.q_enable[r], t.hash[r], t.left[r], t.right[r], t.control[r], t.head_mark[r] >>

LookupInput(left, right, hash) == << 1, hash, left, right, 0, 1 >>

DefaultLookup == << 1, HASH_ZERO_ZERO, 0, 0, 0, 1 >>

LookupPasses(t, left, right, hash) ==
    \E r \in PRows : PtRow(t, r) = LookupInput(left, right, hash)

\* the capacity checks of the two tables, side by side: an execution is
\* either one of MptCircuitConfig::assign or one of dev_load
InitTables == InitAssign \/ InitPoseidon
NextTables == NextAssign \/ NextPoseidon
SpecTables == InitTables /\ [][NextTables]_vars

\* ------------------------------------------------------------------------
\* ConstraintBuilder, as MptCircuitConfig::configure uses it: the gadgets add
\* gates and lookups to the builder, then cb.build(cs) registers them.
\* An expression is known by the value it takes on the row under
\* evaluation; a stored gate is known by its name and by the value it takes
\* there for either value of the binary selector.
StoredNames == {"byte_bit", "key_bit", "mpt_update"}

\* BinaryQuery::condition: selector * body
Condition(selector, body) == selector * body

\* mutant: the constraint is stored without its selector
StoredConstraint_Bare(name, constraint) ==
    [ name |-> name, expr |-> constraint,
      query |-> [selector \in {0, 1} |-> constraint] ]
\* self.constraints.push((name, selector.condition(constraint)))
StoredConstraint(name, constraint) ==
    [ name |-> name, expr |-> constraint,
      query |-> [selector \in {0, 1} |-> Condition(selector, constraint)] ]

\* mutant: the lookups are registered before the gates
BuildOrder_LookupsFirst(constraints, lookups) ==
    [i \in 1..Len(lookups) |-> <<"lookup_any", lookups[i]>>]
    \o [i \in 1..Len(constraints) |-> <<"create_gate", constraints[i].name>>]
\* ConstraintBuilder::build: the calls made on the ConstraintSystem, in order
BuildOrder(constraints, lookups) ==
    [i \in 1..Len(constraints) |-> <<"create_gate", constraints[i].name>>]
    \o [i \in 1..Len(lookups) |-> <<"lookup_any", lookups[i]>>]

InitBuilder ==
    /\ ops = << >>
    /\ pc = "idle"
    /\ InitRest
    /\ mpt = MptIdle
    /\ pt = PtIdle
    /\ cb = [CbIdle EXCEPT !.pc = "configure"]

\* ConstraintBuilder::add_constraint
AddConstraint ==
    /\ cb.pc = "configure"
    /\ Len(cb.constraints) < MaxStored
    /\ \E name \in StoredNames, constraint \in 0..MaxExpr :
          cb' = [cb EXCEPT !.constraints =
                              Append(@, StoredConstraint(name, constraint))]
    /\ UNCHANGED noncb

\* ConstraintBuilder::add_lookup_2
AddLookup ==
    /\ cb.pc = "configure"
    /\ Len(cb.lookups) < MaxStored
    /\ \E name \in StoredNames :
          cb' = [cb EXCEPT !.lookups = Append(@, name)]
    /\ UNCHANGED noncb

\* cb.build(cs): the builder is moved into the call
Build ==
    /\ cb.pc = "configure"
    /\ cb' = [cb EXCEPT !.registered = BuildOrder(cb.constraints, cb.lookups),
                        !.pc = "built"]
    /\ UNCHANGED noncb

NextBuilder == AddConstraint \/ AddLookup \/ Build

SpecBuilder == InitBuilder /\ [][NextBuilder]_vars

\* the table loads, side by side: an execution is either one of the single-op
\* circuit (synthesize, then verification) or one of dev_load
InitLoads == InitSingle \/ InitPoseidon
NextLoads == Next \/ NextPoseidon
SpecLoads == InitLoads /\ [][NextLoads]_vars

\* ------------------------------------------------------------------------
\* util.rs.  A 256-bit word is four u64 digits of eight bytes each.  The model
\* keeps the four digits and scales the widths: a byte has ByteBits bits and
\* a digit DigitBytes bytes, so that a word fits the integers of the checker.
\* Fr is the field of the canonical values below FrModulus, which like the
\* real modulus lies between 2^(WordBits - 3) and 2^(WordBits - 2).
ByteBits == 2
DigitBytes == 2
WordDigits == 4
MaxLimb == 1

ByteBase == Pow2(ByteBits)
DigitBits == ByteBits * DigitBytes
DigitBase == Pow2(DigitBits)
WordBytes == DigitBytes * WordDigits
WordBits == DigitBits * WordDigits
U128Base == DigitBase * DigitBase
FrModulus == 3 * Pow2(WordBits - 4) + 1

\* the digits the calls are tried with: the lowest and the highest values
DigitValues == (0..MaxLimb) \cup { DigitBase - 1 - v : v \in 0..MaxLimb }

\* U256 of four little-endian digits
U256(d) == d[1] + DigitBase * (d[2] + DigitBase * (d[3] + DigitBase * d[4]))

\* x.0: the four u64 digits of a U256, least significant first
limbs(x) == [k \in 1..WordDigits |-> (x \div Pow2(DigitBits * (k - 1))) % DigitBase]

\* u128 arithmetic
u128(v) == v % U128Base

\* Fr::from_u128
from_u128(v) == v % FrModulus

\* mutant: the low limb comes first
u256_hi_lo_LowFirst(x) ==
    LET u64_digits == limbs(x)
    IN  << u128(u128(u64_digits[2] * DigitBase) + u64_digits[1]),
           u128(u128(u64_digits[4] * DigitBase) + u64_digits[3]) >>

u256_hi_lo(x) ==
    LET u64_digits == limbs(x)
    IN  << u128(u128(u64_digits[4] * DigitBase) + u64_digits[3]),
           u128(u128(u64_digits[2] * DigitBase) + u64_digits[1]) >>

\* U256::to_big_endian: the bytes of the word, most significant first
to_big_endian(x) ==
    [k \in 1..WordBytes |-> (x \div Pow2(ByteBits * (WordBytes - k))) % ByteBase]

\* u128::from_be_bytes
RECURSIVE from_be_bytes(_)
from_be_bytes(bytes) ==
    IF Len(bytes) = 0 THEN 0
    ELSE u128(from_be_bytes(SubSeq(bytes, 1, Len(bytes) - 1)) * ByteBase)
            + bytes[Len(bytes)]

split_word(x) ==
    LET bytes == to_big_endian(x)
        high_bytes == SubSeq(bytes, 1, WordBytes \div 2)
        low_bytes == SubSeq(bytes, WordBytes \div 2 + 1, WordBytes)
    IN  << from_u128(from_be_bytes(high_bytes)), from_u128(from_be_bytes(low_bytes)) >>

\* BigUint::to_u64_digits: least significant first, no leading zero digit
RECURSIVE to_u64_digits(_)
to_u64_digits(x) ==
    IF x = 0 THEN << >>
    ELSE << x % DigitBase >> \o to_u64_digits(x \div DigitBase)

\* Vec::resize
resize(v, new_len, value) ==
    [k \in 1..new_len |-> IF k <= Len(v) THEN v[k] ELSE value]

hi_lo(x) ==
    LET u64_digits == resize(to_u64_digits(x), WordDigits, 0)
    IN  << from_u128(u128(u128(u64_digits[4] * DigitBase) + u64_digits[3])),
           from_u128(u128(u128(u64_digits[2] * DigitBase) + u64_digits[1])) >>

\* Fr::to_bytes: the bytes of the canonical value, least significant first
to_bytes(v) ==
    [k \in 1..WordBytes |-> (v \div Pow2(ByteBits * (k - 1))) % ByteBase]

\* bytes.reverse()
reverse(bytes) == [k \in 1..Len(bytes) |-> bytes[Len(bytes) + 1 - k]]

\* 31 - i / 8 in usize: below zero the subtraction overflows, and where
\* overflow is not checked it wraps
BitIndexOverflows(i) == i \div ByteBits > WordBytes - 1
BitIndexWrapped(i) == UsizeMax - (i \div ByteBits - (WordBytes - 1)) + 1
BitIndex(i) == (WordBytes - 1) - i \div ByteBits

\* bytes.get(index).map_or_else(|| false, |&byte| byte & (1 << (i % 8)) != 0)
BitOf(bytes, index, i) ==
    IF index < Len(bytes)
    THEN (bytes[index + 1] \div Pow2(i % ByteBits)) % 2 = 1
    ELSE FALSE

\* the bit indices the calls are tried with: some are past the last bit
MaxIndex == WordBits + 2 * ByteBits

InitUtil ==
    /\ ops = << >>
    /\ pc = "idle"
    /\ opIdx = 1
    /\ backend = LastRow + 1
    /\ offset = 0
    /\ region = EmptyRegion
    /\ aux_ret = 0
    /\ trans_table = {}
    /\ type_table = {}
    /\ failures = {}
    /\ mpt = MptIdle
    /\ pt = PtIdle
    /\ cb = CbIdle
    /\ \E d \in [1..WordDigits -> DigitValues] :
          \/ util = [UtilIdle EXCEPT !.pc = "word", !.x = U256(d)]
          \/ /\ U256(d) < FrModulus
             /\ \E i \in 0..MaxIndex :
                   util = [UtilIdle EXCEPT !.pc = "bit", !.x = U256(d), !.i = i]

\* u256_hi_lo(&x)
U256HiLoCall ==
    /\ util.pc = "word"
    /\ util' = [util EXCEPT !.fn = "u256_hi_lo", !.ret = u256_hi_lo(util.x),
                            !.pc = "returned"]
    /\ UNCHANGED nonutil

\* split_word(x)
SplitWordCall ==
    /\ util.pc = "word"
    /\ util' = [util EXCEPT !.fn = "split_word", !.ret = split_word(util.x),
                            !.pc = "returned"]
    /\ UNCHANGED nonutil

\* hi_lo(&BigUint::from(x))
HiLoCall ==
    /\ util.pc = "word"
    /\ util' = [util EXCEPT !.fn = "hi_lo", !.ret = hi_lo(util.x),
                            !.pc = "returned"]
    /\ UNCHANGED nonutil

\* x.bit(i) on the field element of canonical value x
BitCall ==
    /\ util.pc = "bit"
    /\ LET bytes == reverse(to_bytes(util.x))
       IN  IF BitIndexOverflows(util.i)
           THEN \/ util' = [util EXCEPT !.fn = "bit", !.pc = "abort"]
                \/ util' = [util EXCEPT !.fn = "bit", !.pc = "returned",
                                        !.index = BitIndexWrapped(util.i),
                                        !.ret = << BitOf(bytes, BitIndexWrapped(util.i),
                                                         util.i) >>]
           ELSE util' = [util EXCEPT !.fn = "bit", !.pc = "returned",
                                     !.index = BitIndex(util.i),
                                     !.ret = << BitOf(bytes, BitIndex(util.i), util.i) >>]
    /\ UNCHANGED nonutil

NextUtil == U256HiLoCall \/ SplitWordCall \/ HiLoCall \/ BitCall

SpecUtil == InitUtil /\ [][NextUtil]_vars

\* ========================================================================
\* Helpers of the claims

\* MPTTestOpCircuit::synthesize as one function of the batch: the region it
\* leaves (used to assign a second batch beside the one in the state)
RECURSIVE SynthesizeFrom(_, _, _, _)
SynthesizeFrom(reg, b, i, off) ==
    IF i > Len(b) THEN reg
    ELSE SynthesizeFrom(
            FillLayer(FillAuxRegion(reg, off, b[i].new_hash_type,
                                    b[i].new_hash, b[i].path),
                      b[i], off),
            b, i + 1, off + Len(b[i].path))

Synthesize(b) ==
    SynthesizeFrom(FillHeading([EmptyRegion EXCEPT !.path[0] = 0], b[1].old_hash[1]),
                   b, 1, 1)

VerifyBatch(b) == Verify(Synthesize(b), LoadTransTable, LoadTypeTable)

\* the program's region is the function's region
SynthesizeAgrees == pc \in {"load", "verify", "done"} => region = Synthesize(ops)

Chained(b) == \A i \in 2..Len(b) : OldRoot(b[i]) = NewRoot(b[i - 1])

\* no row before the last has new-type Leaf
LeafOnlyLast(op) ==
    \A i \in 1..(Len(op.new_hash_type) - 1) : op.new_hash_type[i] # Leaf

EndsInLeaf(op) == op.new_hash_type[Len(op.new_hash_type)] = Leaf

GatesHold == \A f \in failures : f[1] \notin GateNames

RECURSIVE KeySum(_, _)
KeySum(path, n) == IF n = 0 THEN 0 ELSE KeySum(path, n - 1) + path[n] * Pow2(n - 1)

\* ========================================================================
\* C1 (SpecSingle).  An operation whose rows' type pairs are in the op table,
\* whose consecutive old-types and new-types are in the transition table,
\* whose new-types end in Leaf and whose path is 0 or 1 on every non-Leaf
\* row is assigned without abort, and after fill_heading, fill_aux at offset
\* 1 and fill_layer every polynomial of the six gates is zero on every row.
C1_Pre(op) ==
    /\ \A i \in 1..Len(op.path) :
          <<op.old_hash_type[i], op.new_hash_type[i]>> \in TYPEMAP_op
    /\ \A i \in 2..Len(op.path) :
          /\ <<op.old_hash_type[i - 1], op.old_hash_type[i]>> \in TYPEMAP_trans
          /\ <<op.new_hash_type[i - 1], op.new_hash_type[i]>> \in TYPEMAP_trans
    /\ EndsInLeaf(op)
    /\ \A i \in 1..Len(op.path) :
          op.new_hash_type[i] # Leaf => op.path[i] \in {0, 1}

C1_SingleOpSatisfiesGates ==
    C1_Pre(ops[1]) =>
        /\ pc # "abort"
        /\ pc = "done" => GatesHold

C1_Witness ==
    /\ pc = "done"
    /\ C1_Pre(ops[1])
    /\ Len(ops[1].path) = MaxSingleLen
    /\ ops[1].old_hash_type[1] = LeafExt
    /\ ops[1].path[MaxSingleLen] = MaxPath
    /\ GatesHold

\* ========================================================================
\* C2 (Spec), as stated.  In a chained batch the op-continue gate holds on
\* the first row of every operation.
C2_AsStated ==
    (pc = "done" /\ Chained(ops)) =>
        \A i \in 1..Len(ops) : <<"op continue", FirstRow(ops, i)>> \notin failures

\* C2 (Spec), amended.  In a chained batch in which no operation but the last
\* has a Leaf new-type before its last row, the op-continue gate holds on the
\* first row of every operation.
C2_ChainedBatchContinues ==
    (/\ pc = "done"
     /\ Chained(ops)
     /\ \A i \in 1..(Len(ops) - 1) : LeafOnlyLast(ops[i])) =>
        \A i \in 1..Len(ops) : <<"op continue", FirstRow(ops, i)>> \notin failures

C2_Witness ==
    /\ pc = "done"
    /\ Chained(ops)
    /\ Len(ops) >= 2
    /\ \A i \in 1..Len(ops) : LeafOnlyLast(ops[i]) /\ EndsInLeaf(ops[i])
    /\ Len(ops[1].path) = 2
    /\ NewRoot(ops[1]) # OldRoot(ops[1])
    /\ region.is_first[FirstRow(ops, 2)] = 1
    /\ <<"op continue", FirstRow(ops, 2)>> \notin failures

\* ========================================================================
\* C4 (Spec).  The batch in the state differs from a chained batch that
\* verifies in the old root of exactly one operation i > 1: verification then
\* reports the op-continue gate on the first row of operation i and nothing
\* else.
Restore(b, i) ==
    [b EXCEPT ![i].old_hash[1] = NewRoot(b[i - 1])]

MutatedAt(b, i) ==
    /\ OldRoot(b[i]) # NewRoot(b[i - 1])
    /\ Chained(Restore(b, i))
    /\ VerifyBatch(Restore(b, i)) = {}

C4_MutatedRootBreaksOneBoundary ==
    pc = "done" =>
        \A i \in 2..Len(ops) :
            MutatedAt(ops, i) => failures = { <<"op continue", FirstRow(ops, i)>> }

C4_Witness ==
    /\ pc = "done"
    /\ Len(ops) = 2
    /\ Len(ops[1].path) = 2
    /\ MutatedAt(ops, 2)
    /\ failures = { <<"op continue", 3>> }

\* ========================================================================
\* C5 (SpecSingle).  Once fill_aux has assigned an operation whose Leaf row,
\* if any, is its last row, depth_aux on its i-th row (from 0) is 2^i and
\* key_aux on its last row is the sum of path[i] * 2^i.
C5_KeyReconstruction ==
    (pc \in {"layer", "load", "verify", "done"} /\ LeafOnlyLast(ops[1])) =>
        LET n == Len(ops[1].path)
        IN  /\ \A i \in 1..n : region.depth_aux[i] = Pow2(i - 1)
            /\ region.key_aux[n] = KeySum(ops[1].path, n)

C5_Witness ==
    /\ pc = "layer"
    /\ ops[1].path = <<1, 0, 1>>
    /\ ops[1].new_hash_type = <<Middle, Middle, Leaf>>
    /\ region.key_aux[3] = 5
    /\ region.depth_aux[3] = 4

\* ========================================================================
\* C3 (SpecTrace).  In every verified witness on which the 'root aux' and
\* 'op continue' gates hold, root_aux on every enabled row is the root its
\* run holds -- new_hash on the run's first row (the latest row at or above
\* it with is_first = 1), or root_aux of the head row 0 when no run has
\* started -- and on every enabled row r with is_first = 1, old_hash is the
\* root held by the run containing row r - 1.
RunStarts(reg, r) == { s \in 1..r : reg.is_first[s] = 1 }

HeldRoot(reg, r) ==
    IF RunStarts(reg, r) = {} THEN reg.root_aux[0]
    ELSE reg.new_hash[MaxOf(RunStarts(reg, r))]

RootGatesHold ==
    \A f \in failures : f[1] \notin {"root aux", "op continue"}

C3_RootPropagation ==
    (pc = "done" /\ RootGatesHold) =>
        \A r \in 1..LastRow :
            region.s_row[r] = 1 =>
                /\ region.root_aux[r] = HeldRoot(region, r)
                /\ region.is_first[r] = 1 =>
                      region.old_hash[r] = HeldRoot(region, r - 1)

C3_Witness ==
    /\ pc = "done"
    /\ RootGatesHold
    /\ region.s_row[1] = 1 /\ region.s_row[2] = 1
    /\ region.is_first[1] = 1
    /\ region.is_first[2] = 1
    /\ region.root_aux[0] = 1
    /\ region.old_hash[1] = 1
    /\ region.new_hash[1] = 2
    /\ region.old_hash[2] = 2
    /\ region.new_hash[2] = 1
    /\ region.root_aux[2] = 1

\* ========================================================================
\* C6 (SpecTrace).  On every row that carries a type pair, whatever its
\* is_first, the pairing lookup fails exactly when (old-type, new-type) is
\* not one of the five pairs of the op table.
TypedRows(reg) == { r \in 1..LastRow : reg.old_hash_type[r] # 0 }

C6_PairingUnmasked ==
    pc = "done" =>
        \A r \in TypedRows(region) :
            (<<"old - new", r>> \in failures)
               <=> (<<region.old_hash_type[r], region.new_hash_type[r]>>
                       \notin TYPEMAP_op)

C6_Witness ==
    /\ pc = "done"
    /\ region.is_first[2] = 1
    /\ region.old_hash_type[2] = Leaf
    /\ region.new_hash_type[2] = Middle
    /\ <<"old - new", 2>> \in failures
    /\ <<"old - new", 1>> \notin failures
    /\ 1 \in TypedRows(region)

\* ========================================================================
\* C7 (SpecTrace).  On every row with is_first = 0 that carries a type pair,
\* the old-type transition lookup passes exactly when (old-type of the row
\* above, old-type of the row) is one of the nine pairs of the transition
\* table, and the new-type transition lookup passes exactly when the same
\* holds of the new-types: each column is judged on its own.
C7_VerticalTransitions ==
    pc = "done" =>
        \A r \in TypedRows(region) :
            region.is_first[r] = 0 =>
                /\ (<<"transition - old", r>> \notin failures)
                      <=> (<<region.old_hash_type[r - 1], region.old_hash_type[r]>>
                              \in TYPEMAP_trans)
                /\ (<<"transition - new", r>> \notin failures)
                      <=> (<<region.new_hash_type[r - 1], region.new_hash_type[r]>>
                              \in TYPEMAP_trans)

C7_Witness ==
    /\ pc = "done"
    /\ region.is_first[2] = 0
    /\ region.old_hash_type[1] = LeafExt /\ region.old_hash_type[2] = LeafExtFinal
    /\ region.new_hash_type[1] = LeafExt /\ region.new_hash_type[2] = Middle
    /\ <<"transition - old", 2>> \notin failures
    /\ <<"transition - new", 2>> \in failures

\* ========================================================================
\* C8 (Spec).  On every row with is_first = 1 both transition lookups get
\* the input (0, 0) and pass; and a chained batch of operations each of
\* which is valid on its own verifies although the types across a boundary
\* between two operations are not a pair of the transition table.
ValidOp(op) == C1_Pre(op)

BoundaryOutsideTable(b, i) ==
    LET last == Len(b[i - 1].path)
    IN  \/ <<b[i - 1].old_hash_type[last], b[i].old_hash_type[1]>> \notin TYPEMAP_trans
        \/ <<b[i - 1].new_hash_type[last], b[i].new_hash_type[1]>> \notin TYPEMAP_trans

C8_BoundaryMasking ==
    pc = "done" =>
        /\ \A r \in Rows :
              region.is_first[r] = 1 =>
                  /\ LookupTransOld(region, r) = <<0, 0>>
                  /\ LookupTransNew(region, r) = <<0, 0>>
                  /\ <<"transition - old", r>> \notin failures
                  /\ <<"transition - new", r>> \notin failures
        /\ (/\ Chained(ops)
            /\ \A i \in 1..Len(ops) : ValidOp(ops[i])
            /\ \E i \in 2..Len(ops) : BoundaryOutsideTable(ops, i))
              => failures = {}

C8_Witness ==
    /\ pc = "done"
    /\ Len(ops) = 2
    /\ Chained(ops)
    /\ ValidOp(ops[1]) /\ ValidOp(ops[2])
    /\ Len(ops[1].path) = 1
    /\ ops[2].new_hash_type[1] = Middle
    /\ BoundaryOutsideTable(ops, 2)
    /\ region.is_first[2] = 1
    /\ region.old_hash_type[1] = Empty /\ region.old_hash_type[2] = Middle
    /\ failures = {}

\* ========================================================================
\* C9 (SpecVectors), as stated.  fill_aux gets past its checks only when
\* new_hash_type, new_hash and path have the same length; when it returns,
\* it has assigned as many rows as the operation has.
C9_AsStated ==
    pc \in {"layer", "load", "verify", "done"} =>
        /\ Len(ops[1].new_hash_type) = Len(ops[1].new_hash)
        /\ Len(ops[1].path) = Len(ops[1].new_hash)

\* ========================================================================
\* C10 (SpecAssign).  Once the update assignment has returned a row count
\* above n_rows, assign does not get past the budget assertion: it aborts
\* there; and it returns Ok only with a row count of at most n_rows.
C10_RowBudget ==
    /\ mpt.n_assigned_rows > mpt.n_rows => mpt.pc \in {"budget", "abort"}
    /\ mpt.pc = "ok" => mpt.n_assigned_rows <= mpt.n_rows

C10_Witness ==
    /\ mpt.pc = "abort"
    /\ mpt.n_keys = 1
    /\ mpt.total_rep_size = 1
    /\ mpt.n_assigned_rows = mpt.n_rows + 1

\* ========================================================================
\* C11 (SpecAssign), as stated.  Every row assign has written -- a selector
\* row, a row of the update assignment, a padding row -- is below n_rows, at
\* every point of every execution.
WrittenRows == mpt.selector \cup mpt.update_rows \cup mpt.padding_rows

C11_AsStated == \A r \in WrittenRows : r < mpt.n_rows

\* ========================================================================
\* C12 (SpecPoseidon), as stated.  After dev_load has completed (so with
\* hash_traces.len() <= size), lookup(left, right, hash) passes exactly when
\* (left, right, hash) is one of the loaded triples or the default triple
\* (0, 0, H(0, 0)).
HashValues == 0..WrongHash(MaxWord, MaxWord)

LoadedTriples(t) == { t.hash_traces[i] : i \in 1..Len(t.hash_traces) }

LookupExact(t) ==
    \A l \in Words, r \in Words, h \in HashValues :
        LookupPasses(t, l, r, h)
           <=> (<<l, r, h>> \in LoadedTriples(t) \cup { <<0, 0, HASH_ZERO_ZERO>> })

C12_AsStated == pt.pc = "loaded" => LookupExact(pt)

\* ========================================================================
\* C13 (SpecPoseidon).  dev_load never gets past a supplied triple whose
\* hash is not H(left, right): every triple before the loop's position has
\* the right hash; and when dev_load has completed every row with
\* head_mark = 1 holds hash = H(left, right).
C13_HashChecked ==
    /\ \A i \in 1..Len(pt.hash_traces) :
          i <= pt.offset => pt.hash_traces[i][3]
                               = H(pt.hash_traces[i][1], pt.hash_traces[i][2])
    /\ pt.pc = "loaded" =>
          \A r \in PRows :
              pt.head_mark[r] = 1 => pt.hash[r] = H(pt.left[r], pt.right[r])

C13_Witness ==
    /\ pt.pc = "abort"
    /\ Len(pt.hash_traces) = 2
    /\ pt.size = 2
    /\ pt.offset = 1
    /\ pt.head_mark[0] = 1
    /\ pt.hash_traces[2][3] # H(pt.hash_traces[2][1], pt.hash_traces[2][2])
    /\ pt.head_mark[1] = 0

C15_AsStated ==
    /\ region # EmptyRegion =>
          (trans_table = LoadTransTable /\ type_table = LoadTypeTable)
    /\ pt.rewritten = {}

\* ========================================================================
\* C16 (SpecTables), as stated.  The fixed cells an assignment has written
\* are those the empty batch gives with the same row budget and the same
\* oracle table size: the row selector on rows 1..n_rows-1, and the q_enable
\* column dev_load leaves.
DevLoadAgrees ==
    pt.pc = "loaded" =>
        [pt EXCEPT !.pc = "idle", !.offset = 0]
           = DevLoad(pt.hash_traces, pt.size)

C16_AsStated ==
    /\ mpt.pc \notin {"idle", "enable"} => mpt.selector = SelectorRows(mpt.n_rows)
    /\ pt.pc = "loaded" => pt.q_enable = DevLoad(<< >>, pt.size).q_enable

\* ========================================================================
\* C17 (SpecBuilder).  Before build nothing is registered with the backend;
\* build registers every stored gate and then every stored lookup, each
\* once, under its own name and in the order they were added; after build
\* the builder takes no further gate or lookup.
C17_BuildRegistersOnce ==
    /\ cb.pc = "configure" => cb.registered = << >>
    /\ cb.pc = "built" =>
          /\ Len(cb.registered) = Len(cb.constraints) + Len(cb.lookups)
          /\ \A i \in 1..Len(cb.constraints) :
                cb.registered[i] = <<"create_gate", cb.constraints[i].name>>
          /\ \A i \in 1..Len(cb.lookups) :
                cb.registered[Len(cb.constraints) + i] = <<"lookup_any", cb.lookups[i]>>
          /\ ~ ENABLED AddConstraint
          /\ ~ ENABLED AddLookup
          /\ ~ ENABLED Build

C17_Witness ==
    /\ cb.pc = "built"
    /\ Len(cb.constraints) = 2
    /\ Len(cb.lookups) = 2
    /\ cb.constraints[1].name # cb.constraints[2].name
    /\ cb.lookups[1] # cb.lookups[2]
    /\ cb.registered[1][2] = cb.constraints[1].name
    /\ cb.registered[4][2] = cb.lookups[2]

\* ========================================================================
\* C18 (SpecBuilder).  Every gate add_constraint has stored is satisfied on
\* a row where the selector is 0, whatever its expression evaluates to, and
\* on a row where the selector is 1 it is satisfied exactly when its
\* expression evaluates to 0.
C18_ConditionedGate ==
    \A i \in 1..Len(cb.constraints) :
        LET g == cb.constraints[i]
        IN  /\ g.query[0] = 0
            /\ (g.query[1] = 0) <=> (g.expr = 0)

C18_Witness ==
    /\ Len(cb.constraints) = 2
    /\ cb.constraints[1].expr # 0
    /\ cb.constraints[1].query[0] = 0
    /\ cb.constraints[1].query[1] # 0
    /\ cb.constraints[2].expr = 0
    /\ cb.constraints[2].query[1] = 0

\* ========================================================================
\* C19 (SpecBackend), as stated.  Witness assignment never ends by handing
\* an error value to its caller: a cell the backend refuses ends it as an
\* abort.
C19_AsStated == pc # "error"

\* ========================================================================
\* C20.  The recurrences that read a batch back from the row trace: a row's
\* path value is key_aux / depth_aux on a row with is_first = 1 and
\* (key_aux - key_aux of the row above) / depth_aux on any other row; a run
\* starts on every row with is_first = 1 and its root is root_aux.
DerivedPath(reg, r) ==
    IF reg.is_first[r] = 1
    THEN reg.key_aux[r] \div reg.depth_aux[r]
    ELSE (reg.key_aux[r] - reg.key_aux[r - 1]) \div reg.depth_aux[r]

RoundTrip ==
    \A i \in 1..Len(ops) :
        \A j \in 1..Len(ops[i].path) :
            LET r == FirstRow(ops, i) + j - 1
            IN  /\ region.depth_aux[r] # 0
                /\ DerivedPath(region, r) = ops[i].path[j]
                /\ region.old_hash[r] = ops[i].old_hash[j]
                /\ region.new_hash[r] = ops[i].new_hash[j]
                /\ region.is_first[r] = 1 => region.root_aux[r] = ops[i].new_hash[j]
                /\ j = 1 => /\ region.is_first[r] = 1
                            /\ region.root_aux[r] = NewRoot(ops[i])

\* C20 (SpecRoundTrip), as stated.  After any batch is assigned the
\* recurrences give back the path values and hashes that were supplied.
C20_AsStated == pc \in {"load", "verify", "done"} => RoundTrip

\* C20 (SpecRoundTrip), amended.  After a batch in which every operation
\* but the last ends with a Leaf new-type is assigned, the recurrences give
\* back the path values and hashes that were supplied.
C20_RoundTrip ==
    (/\ pc \in {"load", "verify", "done"}
     /\ \A i \in 1..(Len(ops) - 1) : EndsInLeaf(ops[i])) => RoundTrip

C20_Witness ==
    /\ pc = "done"
    /\ Len(ops) = 2
    /\ EndsInLeaf(ops[1]) /\ EndsInLeaf(ops[2])
    /\ ops[1].path = <<0, 1>>
    /\ ops[2].path = <<1>>
    /\ ops[1].new_hash_type = <<Middle, Leaf>>
    /\ NewRoot(ops[1]) # NewRoot(ops[2])
    /\ DerivedPath(region, 2) = 1
    /\ region.root_aux[3] = NewRoot(ops[2])
    /\ RoundTrip

\* ========================================================================
\* C21 (Spec).  From the return of fill_heading to the end of the batch's
\* assignment and after it, row 0 holds key_aux = 0, depth_aux = 0,
\* root_aux = the first operation's old root and is_first = 1, and row 1
\* holds is_first = 1.
C21_HeadingKept ==
    pc \in {"aux", "layer", "load", "verify", "done"} =>
        /\ region.key_aux[0] = 0
        /\ region.depth_aux[0] = 0
        /\ region.root_aux[0] = ops[1].old_hash[1]
        /\ region.is_first[0] = 1
        /\ region.is_first[1] = 1

C21_Witness ==
    /\ pc = "load"
    /\ Len(ops) = MaxBatchRows
    /\ ops[1].new_hash_type[1] = Middle
    /\ ops[1].old_hash[1] = 2
    /\ ops[1].new_hash[1] = 1
    /\ region.root_aux[0] = 2
    /\ region.root_aux[1] = 1
    /\ region.is_first[1] = 1
    /\ region.is_first[2] = 0

\* ========================================================================
\* C22 (SpecVectors).  When fill_aux has returned, every row k (from 1) it
\* walked is as its local flag says, the flag being true on the first row and
\* on every row after a row of new-type Leaf: on a flagged row root_aux is
\* the row's hash, depth_aux is 1 and key_aux is the row's path; on any other
\* row root_aux is root_aux of the row above, depth_aux twice depth_aux of
\* the row above and key_aux is key_aux of the row above plus path times
\* depth_aux; and is_first of the row below is 1 exactly when the row's
\* new-type is Leaf, 0 otherwise.
LocalFlag(new_hash_types, k) == k = 1 \/ new_hash_types[k - 1] = Leaf

C22_FillAuxRows ==
    pc = "layer" =>
        LET op == ops[1]
        IN  \A k \in 1..ZipLen(op.new_hash_type, op.new_hash, op.path) :
               /\ IF LocalFlag(op.new_hash_type, k)
                  THEN /\ region.root_aux[k] = op.new_hash[k]
                       /\ region.depth_aux[k] = 1
                       /\ region.key_aux[k] = op.path[k]
                  ELSE /\ region.root_aux[k] = region.root_aux[k - 1]
                       /\ region.depth_aux[k] = 2 * region.depth_aux[k - 1]
                       /\ region.key_aux[k] =
                             region.key_aux[k - 1] + op.path[k] * region.depth_aux[k]
               /\ region.is_first[k + 1] = 1 <=> op.new_hash_type[k] = Leaf
               /\ region.is_first[k + 1] \in {0, 1}

C22_Witness ==
    /\ pc = "layer"
    /\ ops[1].new_hash_type = <<Leaf, Middle>>
    /\ ops[1].new_hash = <<1, 2>>
    /\ ops[1].path = <<1, 1>>
    /\ region.root_aux[2] = 2
    /\ region.depth_aux[2] = 1
    /\ region.is_first[2] = 1
    /\ region.is_first[3] = 0

\* ========================================================================
\* C23 (SpecTrace).  On every enabled row the 'is first' gate holds exactly
\* when is_first of the next row is 0 or 1 and, if it is 1, the row's
\* new-type is Leaf; so in a witness on which the gate holds everywhere,
\* is_first = 1 on the row after an enabled row only follows a Leaf row.
C23_IsFirstGate ==
    pc = "done" =>
        /\ \A r \in Rows :
              region.s_row[r] = 1 =>
                 ((<<"is first", r>> \notin failures)
                     <=> /\ region.is_first[Succ(r)] \in {0, 1}
                         /\ region.is_first[Succ(r)] = 1 =>
                               region.new_hash_type[r] = Leaf)
        /\ (\A f \in failures : f[1] # "is first") =>
              \A r \in Rows :
                 (region.s_row[r] = 1 /\ region.is_first[Succ(r)] = 1) =>
                     region.new_hash_type[r] = Leaf

C23_Witness ==
    /\ pc = "done"
    /\ region.s_row[1] = 1 /\ region.s_row[2] = 1
    /\ region.new_hash_type[1] = Leaf
    /\ region.is_first[2] = 1
    /\ region.new_hash_type[2] = Middle
    /\ region.is_first[3] = 0
    /\ \A f \in failures : f[1] # "is first"

\* ========================================================================
\* C24 (SpecTrace).  When the 'is first' gate holds on an enabled row of
\* new-type Leaf and the new-type transition lookup holds on the row below,
\* is_first of the row below is 1: no witness that satisfies the constraints
\* continues a run past a Leaf row.
C24_LeafEndsRun ==
    pc = "done" =>
        \A r \in Rows :
           (/\ region.s_row[r] = 1
            /\ region.new_hash_type[r] = Leaf
            /\ <<"is first", r>> \notin failures
            /\ <<"transition - new", Succ(r)>> \notin failures) =>
               region.is_first[Succ(r)] = 1

C24_Witness ==
    /\ pc = "done"
    /\ region.s_row[1] = 1 /\ region.s_row[2] = 1
    /\ region.new_hash_type[1] = Leaf
    /\ region.new_hash_type[2] = Leaf
    /\ region.is_first[2] = 1
    /\ <<"is first", 1>> \notin failures
    /\ <<"transition - new", 2>> \notin failures
    /\ <<"transition - new", 3>> \in failures

\* ========================================================================
\* C25 (SpecProver).  In every witness on which the 'depth aux' gate holds on
\* all rows, on every enabled row depth_aux is 1 where is_first = 1 and twice
\* depth_aux of the row above where is_first = 0; and a row that is k rows
\* below the latest row with is_first = 1, every row in between having
\* is_first = 0, has depth_aux = 2^k.
DepthGateHolds == \A f \in failures : f[1] # "depth aux"

C25_DepthDoubles ==
    (pc = "done" /\ DepthGateHolds) =>
        \A r \in 1..LastRow :
            region.s_row[r] = 1 =>
                /\ region.is_first[r] = 1 => region.depth_aux[r] = 1
                /\ region.is_first[r] = 0 =>
                      region.depth_aux[r] = 2 * region.depth_aux[r - 1]
                /\ (/\ RunStarts(region, r) # {}
                    /\ \A x \in (MaxOf(RunStarts(region, r)) + 1)..r :
                          region.is_first[x] = 0) =>
                      region.depth_aux[r] = Pow2(r - MaxOf(RunStarts(region, r)))

C25_Witness ==
    /\ pc = "done"
    /\ DepthGateHolds
    /\ region.s_row[1] = 1 /\ region.s_row[2] = 1
    /\ region.is_first[1] = 1 /\ region.depth_aux[1] = 1
    /\ region.is_first[2] = 0 /\ region.depth_aux[2] = 2

\* ========================================================================
\* C26 (SpecProver).  On every enabled row the 'path bit' gate holds exactly
\* when the row's new-type is Leaf or its path is 0 or 1: a non-Leaf row
\* passes only with a boolean path, a Leaf row passes with any path.
C26_PathBitGate ==
    pc = "done" =>
        \A r \in Rows :
            region.s_row[r] = 1 =>
                ((<<"path bit", r>> \notin failures)
                    <=> (region.new_hash_type[r] = Leaf \/ region.path[r] \in {0, 1}))

C26_Witness ==
    /\ pc = "done"
    /\ region.s_row[1] = 1 /\ region.s_row[2] = 1
    /\ region.new_hash_type[1] = Middle /\ region.path[1] = MaxPath
    /\ region.new_hash_type[2] = Leaf /\ region.path[2] = MaxPath
    /\ <<"path bit", 1>> \in failures
    /\ <<"path bit", 2>> \notin failures

\* ========================================================================
\* C27 (Spec), as stated.  After a batch is assigned, on every row of every
\* operation is_first is 1 where fill_aux computed the row with its flag up
\* and 0 where it computed it with its flag down -- depth_aux is 1 exactly on
\* the rows computed with the flag up -- and is_first is 1 on the first row of
\* every operation.
FlagAgrees(b, i) ==
    /\ \A k \in 1..Len(b[i].path) :
          LET r == FirstRow(b, i) + k - 1
          IN  region.is_first[r] = IF region.depth_aux[r] = 1 THEN 1 ELSE 0
    /\ region.is_first[FirstRow(b, i)] = 1

C27_AsStated ==
    pc \in {"load", "verify", "done"} =>
        \A i \in 1..Len(ops) : FlagAgrees(ops, i)

\* C27 (Spec), amended.  The same, for the batches in which every operation
\* but the last ends with a Leaf new-type.
C27_FlagAgreesAfterLeaf ==
    (/\ pc \in {"load", "verify", "done"}
     /\ \A i \in 1..(Len(ops) - 1) : EndsInLeaf(ops[i])) =>
        \A i \in 1..Len(ops) : FlagAgrees(ops, i)

C27_Witness ==
    /\ pc = "load"
    /\ Len(ops) = 2
    /\ ops[1].new_hash_type = <<Middle, Leaf>>
    /\ ops[2].new_hash_type = <<Middle>>
    /\ region.is_first[2] = 0 /\ region.depth_aux[2] = 2
    /\ region.is_first[3] = 1 /\ region.depth_aux[3] = 1
    /\ region.is_first[4] = 0

\* ========================================================================
\* C28 (SpecProver), as stated.  In every witness on which all six gates and
\* all three lookups hold, every run of enabled rows -- rows s..e, s enabled
\* with is_first = 1, the rows after s up to e enabled with is_first # 1, and
\* the row after e either not enabled or with is_first = 1 -- has new-type
\* Leaf on row e and new-type Middle on every row before e.
IsRun(reg, s, e) ==
    /\ s <= e
    /\ reg.s_row[s] = 1 /\ reg.is_first[s] = 1
    /\ \A r \in (s + 1)..e : reg.s_row[r] = 1 /\ reg.is_first[r] # 1
    /\ reg.s_row[Succ(e)] # 1 \/ reg.is_first[Succ(e)] = 1

C28_AsStated ==
    (pc = "done" /\ failures = {}) =>
        \A s \in 1..LastRow, e \in 1..LastRow :
            IsRun(region, s, e) =>
                /\ region.new_hash_type[e] = Leaf
                /\ \A r \in s..(e - 1) : region.new_hash_type[r] = Middle

\* ========================================================================
\* C29 (Spec).  A fill_aux call for an operation of n rows at offset o
\* changes no cell but root_aux, depth_aux and key_aux on rows o..o+n-1 and
\* is_first on rows o+1..o+n, and these are the cells it assigns; the cells
\* it assigns are none of the cells fill_heading assigned and none of the
\* cells the fill_aux calls of the operations before it assigned.
AuxFrame(o, n) ==
    { <<c, r>> : c \in {"root_aux", "depth_aux", "key_aux"}, r \in o..(o + n - 1) }
    \cup { <<"is_first", r>> : r \in (o + 1)..(o + n) }

Changed(reg1, reg2) ==
    { x \in (DOMAIN EmptyRegion) \X Rows : reg1[x[1]][x[2]] # reg2[x[1]][x[2]] }

AuxCellsOf(b, i) ==
    FillAuxCells(FirstRow(b, i), b[i].new_hash_type, b[i].new_hash, b[i].path)

FillAuxStep ==
    (pc = "aux" /\ pc' = "layer") =>
        /\ Changed(region, region') \subseteq AuxFrame(offset, Len(ops[opIdx].path))
        /\ AuxCellsOf(ops, opIdx) = AuxFrame(offset, Len(ops[opIdx].path))
        /\ AuxCellsOf(ops, opIdx) \cap FillHeadingCells = {}
        /\ \A j \in 1..(opIdx - 1) :
              AuxCellsOf(ops, opIdx) \cap AuxCellsOf(ops, j) = {}

C29_FillAuxFrame == [][FillAuxStep]_vars

C29_Witness ==
    /\ pc = "layer"
    /\ opIdx = 2
    /\ offset = 2
    /\ Len(ops[2].path) = 2
    /\ ops[1].new_hash_type[1] = Leaf
    /\ ops[2].new_hash_type = <<Middle, Leaf>>
    /\ region.is_first = [r \in Rows |-> IF r \in {0, 1, 2, 4} THEN 1 ELSE 0]
    /\ region.depth_aux[2] = 1 /\ region.depth_aux[3] = 2

\* ========================================================================
\* C30 (SpecVectors), as stated.  When fill_aux has returned, the number it
\* returned is the number of rows on which it assigned root_aux, depth_aux
\* and key_aux (the depth_aux it assigns is never 0).
FilledRows(reg) == { r \in 1..LastRow : reg.depth_aux[r] # 0 }

C30_AsStated ==
    pc = "layer" => aux_ret = Cardinality(FilledRows(region))

\* ========================================================================
\* C31 (SpecAssign), as stated.  When assign has completed, every row of the
\* update assignment is a selector-enabled row, the other selector-enabled
\* rows are exactly the padding rows, and no row is both an update row and
\* a padding row.
C31_AsStated ==
    mpt.pc = "ok" =>
        /\ mpt.update_rows \subseteq mpt.selector
        /\ mpt.selector \ mpt.update_rows = mpt.padding_rows
        /\ mpt.update_rows \cap mpt.padding_rows = {}

\* ========================================================================
\* C32 (SpecAssign), as stated.  Once assign is past the computation of
\* total_rep_size without abort, total_rep_size is n_rows / 32 - 1, a count
\* between 0 and n_rows / 32.
C32_AsStated ==
    mpt.pc \in {"gadgets", "update", "budget", "padding", "ok"} =>
        /\ mpt.total_rep_size \in 0..(mpt.n_rows \div RepRows)
        /\ mpt.total_rep_size = mpt.n_rows \div RepRows - 1

\* ========================================================================
\* C33 (SpecUtil).  For every word x, u256_hi_lo(x) is (x div 2^h, x mod 2^h),
\* h being half the width of a word: hi * 2^h + lo = x with both limbs below
\* 2^h, and u256_hi_lo(1) = (0, 1); split_word(x) and hi_lo(x) return the
\* field elements whose canonical values are these two limbs.
HalfWord == Pow2(WordBits \div 2)

C33_Limbs ==
    util.pc = "returned" =>
        /\ util.fn = "u256_hi_lo" =>
              /\ util.ret = << util.x \div HalfWord, util.x % HalfWord >>
              /\ util.ret[1] * HalfWord + util.ret[2] = util.x
              /\ util.ret[1] < HalfWord /\ util.ret[2] < HalfWord
              /\ util.x = 1 => util.ret = << 0, 1 >>
        /\ util.fn \in {"split_word", "hi_lo"} =>
              /\ util.ret = u256_hi_lo(util.x)
              /\ util.ret = << util.x \div HalfWord, util.x % HalfWord >>

C33_Witness ==
    /\ util.pc = "returned"
    /\ util.fn = "split_word"
    /\ util.x = U256(<< DigitBase - 1, 1, 0, DigitBase - 2 >>)
    /\ util.ret = << (DigitBase - 2) * DigitBase, DigitBase + DigitBase - 1 >>

\* ========================================================================
\* C34 (SpecUtil), as stated.  A call of bit(i) never aborts; it returns bit
\* i (least significant first) of the canonical value for every i below the
\* width of a word and false for every i from there on; and the index it
\* looks the byte up with is never a wrapped one.
BitValue(x, i) == IF i < WordBits THEN (x \div Pow2(i)) % 2 = 1 ELSE FALSE

C34_AsStated ==
    util.fn = "bit" =>
        /\ util.pc # "abort"
        /\ util.pc = "returned" =>
              /\ util.ret = << BitValue(util.x, util.i) >>
              /\ util.index <= WordBytes - 1

====
